---- MODULE Spec2Model ----
(***************************************************************************)
(* Business search service: POST /search, Excel export and the Telegram    *)
(* chat handlers (webhook deployment src/api/server.js, polling deployment *)
(* src/unnamed/part_000).                                                  *)
(*                                                                         *)
(* JavaScript values are records [t, v]: t is the typeof-like tag, v the   *)
(* content as a sequence of atoms (a string's text, a number's decimal     *)
(* rendering).  A string is a sequence of atoms, each atom one character   *)
(* or one run of characters that holds no comma, no white space, no sigil  *)
(* and no Markdown-reserved character.                                     *)
(***************************************************************************)
EXTENDS Integers, Sequences, FiniteSets

VARIABLES
    raw,               \* normalisation: the raw listing record under study
    canonical,         \* normalisation: the record the HTTP path maps it to
    chatText,          \* normalisation: the field texts the chat path renders
    variant,           \* the deployment: "webhook" (api/server.js) or "polling" (part_000)
    req,               \* HTTP: each POST /search request's position and locals
    latestBusinesses,  \* HTTP, polling deployment: let latestBusinesses
    latestFilename,    \* HTTP, polling deployment: let latestFilename
    businessesWriter,  \* history: the request that assigned latestBusinesses
    filenameWriter,    \* history: the request that assigned latestFilename
    download,          \* HTTP: the last /download-excel exchange
    chat               \* chat: the message handler's position and locals

normVars == <<raw, canonical, chatText>>
httpVars ==
    <<variant, req, latestBusinesses, latestFilename, businessesWriter,
      filenameWriter, download>>
vars == <<normVars, httpVars, chat>>

----------------------------------------------------------------------------
(* JavaScript values *)

Undefined == [t |-> "undefined", v |-> <<>>]
Null == [t |-> "null", v |-> <<>>]
Str(s) == [t |-> "string", v |-> s]
Num(s) == [t |-> "number", v |-> s]
Obj == [t |-> "object", v |-> <<>>]
Fn == [t |-> "function", v |-> <<>>]

\* ToBoolean
Truthy(x) ==
    CASE x.t \in {"undefined", "null"} -> FALSE
      [] x.t = "number" -> x.v \notin {<<"0">>, <<"NaN">>}
      [] x.t = "string" -> x.v # <<>>
      [] OTHER -> TRUE

\* a || b
Or(a, b) == IF Truthy(a) THEN a ELSE b

\* String(x), as a template literal or Number.prototype.toString renders it
toString(x) ==
    CASE x.t = "string" -> x
      [] x.t = "number" -> Str(x.v)
      [] x.t = "undefined" -> Str(<<"undefined">>)
      [] x.t = "null" -> Str(<<"null">>)
      [] x.t = "function" -> Str(<<"function Object">>)
      [] OTHER -> Str(<<"[object Object]">>)

\* x?.toString()
OptToString(x) == IF x.t \in {"undefined", "null"} THEN Undefined ELSE toString(x)

----------------------------------------------------------------------------
(* Record normaliser and chat formatter *)

NoName == Str(<<"No Name">>)
NA == Str(<<"N/A">>)

NormalizeSwapped(b) ==
    [name |-> Or(b.name, Or(b.title, NoName)),
     address |-> Or(b.street_address, Or(b.address, NA)),
     phone |-> Or(b.phone, NA),
     website |-> Or(b.url, Or(b.website, NA)),
     rating |-> Or(b.rating, NA),
     reviews |-> Or(b.review_count, Or(b.reviews, NA))]

\* rawResults.map(b => ({...}))
NormalizeRecord(b) ==
    [name |-> Or(b.title, Or(b.name, NoName)),
     address |-> Or(b.address, Or(b.street_address, NA)),
     phone |-> Or(b.phone, NA),
     website |-> Or(b.website, Or(b.url, NA)),
     rating |-> Or(b.rating, NA),
     reviews |-> Or(b.reviews, Or(b.review_count, NA))]

\* the class [_*[\]()~`>#+\-=|{}.!]; the atom BACKTICK stands for the grave accent
Reserved ==
    {"_", "*", "[", "]", "(", ")", "~", "BACKTICK", ">", "#", "+", "-", "=", "|",
     "{", "}", ".", "!"}

RECURSIVE EscapeAtoms(_)
EscapeAtoms(s) ==
    IF s = <<>> THEN <<>>
    ELSE (IF Head(s) \in Reserved THEN <<"\\", Head(s)>> ELSE <<Head(s)>>)
         \o EscapeAtoms(Tail(s))

\* text.replace is not a function: a truthy value that is no string
EscapeThrows(text) == Truthy(text) /\ text.t # "string"

escapeMarkdown(text) ==
    IF ~Truthy(text) THEN Str(<<>>) ELSE Str(EscapeAtoms(text.v))

\* the arguments the message template hands to escapeMarkdown, field by field
FormatArgs(b) ==
    [name |-> Or(b.title, Or(b.name, NoName)),
     address |-> Or(b.address, Or(b.street_address, NA)),
     phone |-> Or(b.phone, NA),
     website |-> Or(b.website, Or(b.url, NA)),
     rating |-> Or(OptToString(b.rating), NA),
     reviews |-> Or(OptToString(b.reviews), Str(<<"0">>))]

Fields == {"name", "address", "phone", "website", "rating", "reviews"}

FormatThrows(b) == \E f \in Fields : EscapeThrows(FormatArgs(b)[f])

FormatRecord(b) == [f \in Fields |-> escapeMarkdown(FormatArgs(b)[f])]

----------------------------------------------------------------------------
(* Strings *)

Whitespace == {" "}

RECURSIVE TrimStart(_)
TrimStart(s) ==
    IF s # <<>> /\ Head(s) \in Whitespace THEN TrimStart(Tail(s)) ELSE s

RECURSIVE TrimEnd(_)
TrimEnd(s) ==
    IF s # <<>> /\ s[Len(s)] \in Whitespace
    THEN TrimEnd(SubSeq(s, 1, Len(s) - 1))
    ELSE s

\* String.prototype.trim
Trim(s) == TrimEnd(TrimStart(s))

\* s.replace(/\s+/g, '_')
RECURSIVE CollapseWhitespace(_)
CollapseWhitespace(s) ==
    IF s = <<>> THEN <<>>
    ELSE IF Head(s) \in Whitespace
         THEN <<"_">> \o CollapseWhitespace(TrimStart(s))
         ELSE <<Head(s)>> \o CollapseWhitespace(Tail(s))

\* one atom lower-cased
Lower(a) ==
    CASE a \in {"USA", "UsA"} -> "usa"
      [] a = "UK" -> "uk"
      [] a = "Mars" -> "mars"
      [] a = "Google" -> "google"
      [] a = "Maps" -> "maps"
      [] OTHER -> a

\* String.prototype.toLowerCase
toLowerCase(s) == [i \in 1..Len(s) |-> Lower(s[i])]

----------------------------------------------------------------------------
(* Country table and engine list *)

CountryKeys == {<<"usa">>, <<"uk">>, <<"australia">>, <<"canada">>}

RegionOf(k) ==
    CASE k = <<"usa">> -> Str(<<"us">>)
      [] k = <<"uk">> -> Str(<<"gb">>)
      [] k = <<"australia">> -> Str(<<"au">>)
      [] k = <<"canada">> -> Str(<<"ca">>)

\* countryMap[k]: a property read, which also finds what the object literal
\* inherits from Object.prototype (of the inherited names only constructor
\* and __proto__ are all lower case)
countryMap(k) ==
    CASE k \in CountryKeys -> RegionOf(k)
      [] k = <<"constructor">> -> Fn
      [] k = <<"_", "_", "proto", "_", "_">> -> Obj
      [] OTHER -> Undefined

google_maps == Str(<<"google", "_", "maps">>)
google == Str(<<"google">>)
bing_maps == Str(<<"bing", "_", "maps">>)
apple_maps == Str(<<"apple", "_", "maps">>)

allowedEngines == {google_maps, google, bing_maps, apple_maps}

----------------------------------------------------------------------------
(* Engine adapter *)

None == [t |-> "none", v |-> <<>>]

NoParams == [engine |-> None, q |-> <<>>, gl |-> None, hl |-> None]

\* the params object fetchBusinesses hands to axios.get
fetchParams(searchQuery, region, engine) ==
    [engine |-> engine,
     q |-> searchQuery,
     gl |-> IF engine \in {google_maps, google} THEN region ELSE Undefined,
     hl |-> IF engine \in {google_maps, google} THEN Str(<<"en">>) ELSE Undefined]

\* a value found under local_results, organic_results or places
NoList == [k |-> "undefined", items |-> <<>>]
NotAList == [k |-> "object", items |-> <<>>]
Array(items) == [k |-> "array", items |-> items]

ListOr(a, b) == IF a.k # "undefined" THEN a ELSE b

\* the engine-specific extraction from response.data
ExtractResults(engine, data) ==
    CASE engine = google_maps -> ListOr(data.local_results, Array(<<>>))
      [] engine = google ->
            ListOr(data.local_results, ListOr(data.organic_results, Array(<<>>)))
      [] engine \in {bing_maps, apple_maps} -> ListOr(data.places, Array(<<>>))
      [] OTHER -> Array(<<>>)

\* what the upstream search does: the request fails (transport or parse
\* error), or it answers with some response.data
Failure == [ok |-> FALSE, local_results |-> NoList, organic_results |-> NoList,
            places |-> NoList]

\* fetchBusinesses: the catch turns a failure into []
fetchBusinesses(engine, outcome) ==
    IF outcome.ok THEN ExtractResults(engine, outcome) ELSE Array(<<>>)

----------------------------------------------------------------------------
(* POST /search *)

MaxReqs == 2

Reqs == 1..MaxReqs

IdleReq ==
    [pc |-> "idle",
     body |-> [keyword |-> None, country |-> None, city |-> None, engine |-> None],
     params |-> NoParams, failed |-> FALSE, status |-> 0, businesses |-> <<>>]

NoDownload ==
    [via |-> "none", source |-> NoList, status |-> 0, rows |-> 0, filename |-> <<>>]

HttpIdle ==
    /\ req = [r \in Reqs |-> IdleReq]
    /\ latestBusinesses = <<>>
    /\ latestFilename = <<"businesses", ".", "xlsx">>
    /\ businessesWriter = 0
    /\ filenameWriter = 0
    /\ download = NoDownload

PassThroughEngine(engine) == IF engine.t = "string" THEN engine ELSE google_maps

\* allowedEngines.includes(engine) ? engine : 'google_maps'
selectedEngine(engine) == IF engine \in allowedEngines THEN engine ELSE google_maps

\* city ? `${keyword} in ${city}, ${country}` : `${keyword} in ${country}`
searchQuery(keyword, city, country) ==
    IF Truthy(city)
    THEN toString(keyword).v \o <<" ", "in", " ">> \o toString(city).v
         \o <<",", " ">> \o toString(country).v
    ELSE toString(keyword).v \o <<" ", "in", " ">> \o toString(country).v

\* the handler from the request's arrival to the await of fetchBusinesses
PostSearch(r, body) ==
    /\ req[r].pc = "idle"
    /\ LET q == [req EXCEPT ![r].body = body] IN
        IF ~Truthy(body.keyword) \/ ~Truthy(body.country)
        THEN req' = [q EXCEPT ![r].pc = "done", ![r].status = 400]
        ELSE IF body.country.t # "string"
        THEN \* country.toLowerCase is not a function, thrown outside the try
             \* of an async handler: the promise rejects, no response is sent
             req' = [q EXCEPT ![r].pc = "unhandled"]
        ELSE LET region == countryMap(toLowerCase(body.country.v)) IN
             IF ~Truthy(region)
             THEN req' = [q EXCEPT ![r].pc = "done", ![r].status = 400]
             ELSE req' = [q EXCEPT
                    ![r].pc = "fetching",
                    ![r].params =
                        fetchParams(
                            searchQuery(body.keyword, body.city, body.country),
                            region, selectedEngine(body.engine))]
    /\ UNCHANGED <<normVars, chat, variant, latestBusinesses, latestFilename,
                   businessesWriter, filenameWriter, download>>

\* rawResults.map(b => ...) throws when rawResults is no array
MapThrows(rawResults) == rawResults.k # "array"

MapAll(items) == [i \in 1..Len(items) |-> NormalizeRecord(items[i])]

Xlsx == <<".", "xlsx">>

\* `${safeKeyword}${safeCity ? '_' + safeCity : ''}_${safeCountry}.xlsx`
Filename(keyword, city, country) ==
    LET safeKeyword == CollapseWhitespace(Trim(keyword.v))
        safeCity == IF Truthy(city) THEN CollapseWhitespace(Trim(city.v)) ELSE <<>>
        safeCountry == CollapseWhitespace(Trim(country.v))
    IN  safeKeyword \o (IF safeCity # <<>> THEN <<"_">> \o safeCity ELSE <<>>)
        \o <<"_">> \o safeCountry \o Xlsx

\* keyword.trim / city.trim is not a function
FilenameThrows(keyword, city) ==
    keyword.t # "string" \/ (Truthy(city) /\ city.t # "string")

\* webhook deployment: the handler from the resumption after fetchBusinesses
\* to its response
SearchRespond(r, outcome) ==
    /\ variant = "webhook"
    /\ req[r].pc = "fetching"
    /\ LET rawResults == fetchBusinesses(req[r].params.engine, outcome)
           q == [req EXCEPT ![r].pc = "done", ![r].failed = ~outcome.ok] IN
        IF MapThrows(rawResults)
        THEN req' = [q EXCEPT ![r].status = 500]
        ELSE req' = [q EXCEPT ![r].status = 200,
                              ![r].businesses = MapAll(rawResults.items)]
    /\ UNCHANGED <<normVars, chat, variant, latestBusinesses, latestFilename,
                   businessesWriter, filenameWriter, download>>

\* polling deployment: the same, with the writes of the process-wide state
SearchRespondLatest(r, outcome) ==
    /\ variant = "polling"
    /\ req[r].pc = "fetching"
    /\ LET businessesRaw == fetchBusinesses(req[r].params.engine, outcome)
           body == req[r].body
           q == [req EXCEPT ![r].pc = "done", ![r].failed = ~outcome.ok] IN
        IF MapThrows(businessesRaw)
        THEN /\ req' = [q EXCEPT ![r].status = 500]
             /\ UNCHANGED <<latestBusinesses, latestFilename, businessesWriter,
                            filenameWriter>>
        ELSE /\ latestBusinesses' = MapAll(businessesRaw.items)
             /\ businessesWriter' = r
             /\ IF FilenameThrows(body.keyword, body.city)
                THEN /\ req' = [q EXCEPT ![r].status = 500]
                     /\ UNCHANGED <<latestFilename, filenameWriter>>
                ELSE /\ latestFilename' =
                            Filename(body.keyword, body.city, body.country)
                     /\ filenameWriter' = r
                     /\ req' = [q EXCEPT
                            ![r].status = 200,
                            ![r].businesses = MapAll(businessesRaw.items)]
    /\ UNCHANGED <<normVars, chat, variant, download>>

----------------------------------------------------------------------------
(* /download-excel *)

ExportAnyArray(businesses) == businesses.k # "array"

\* !businesses || !Array.isArray(businesses) || businesses.length === 0
ExportRejected(businesses) ==
    businesses.k # "array" \/ Len(businesses.items) = 0

\* webhook deployment: POST /download-excel with { businesses, filename }
PostDownload(businesses, filename) ==
    /\ variant = "webhook"
    /\ download' =
        IF ExportRejected(businesses)
        THEN [via |-> "POST", source |-> businesses, status |-> 400, rows |-> 0,
              filename |-> <<>>]
        ELSE [via |-> "POST", source |-> businesses, status |-> 200,
              rows |-> Len(businesses.items),
              filename |-> IF filename.t = "undefined"
                           THEN <<"businesses">> \o Xlsx
                           ELSE toString(filename).v]
    /\ UNCHANGED <<normVars, chat, variant, req, latestBusinesses,
                   latestFilename, businessesWriter, filenameWriter>>

\* polling deployment: GET /download-excel serves the process-wide state
GetDownload ==
    /\ variant = "polling"
    /\ download' =
        IF ExportRejected(Array(latestBusinesses))
        THEN [via |-> "GET", source |-> Array(latestBusinesses), status |-> 400,
              rows |-> 0, filename |-> <<>>]
        ELSE [via |-> "GET", source |-> Array(latestBusinesses), status |-> 200,
              rows |-> Len(latestBusinesses), filename |-> latestFilename]
    /\ UNCHANGED <<normVars, chat, variant, req, latestBusinesses,
                   latestFilename, businessesWriter, filenameWriter>>

----------------------------------------------------------------------------
(* Chat command handler *)

\* slice(0, 10)
MaxRecords == 10

StartsWithSigil(s) == s # <<>> /\ Head(s) = "/"

\* the index of the first comma of s, 0 when it has none
RECURSIVE FirstComma(_, _)
FirstComma(s, i) ==
    IF i > Len(s) THEN 0 ELSE IF s[i] = "," THEN i ELSE FirstComma(s, i + 1)

\* s.split(',')
RECURSIVE Split(_)
Split(s) ==
    LET c == FirstComma(s, 1) IN
    IF c = 0 THEN <<s>>
    ELSE <<SubSeq(s, 1, c - 1)>> \o Split(SubSeq(s, c + 1, Len(s)))

\* text.slice(1).split(',').map(p => p.trim())
CommandParts(text) ==
    LET pieces == Split(Tail(text)) IN [i \in 1..Len(pieces) |-> Trim(pieces[i])]

FieldsCityFirst(parts) ==
    [keyword |-> parts[1],
     city |-> parts[2],
     country |-> IF Len(parts) >= 3 THEN toLowerCase(parts[3])
                 ELSE toLowerCase(parts[2]),
     engine |-> IF Len(parts) = 4 THEN toLowerCase(parts[4]) ELSE google_maps.v]

\* keyword, city, country and engine by the number of parts (two or more)
CommandFields(parts) ==
    [keyword |-> parts[1],
     city |-> IF Len(parts) >= 4 THEN parts[2]
              ELSE IF Len(parts) = 3 THEN parts[2] ELSE <<>>,
     country |-> IF Len(parts) >= 4 THEN toLowerCase(parts[3])
                 ELSE IF Len(parts) = 3 THEN toLowerCase(parts[3])
                 ELSE toLowerCase(parts[2]),
     engine |-> IF Len(parts) = 4 THEN toLowerCase(parts[4]) ELSE google_maps.v]

\* webhook: countryMapKeys.includes(country)
WebhookCountryOk(country) == country \in CountryKeys

\* polling: !countryMap[country] is false
PollingCountryOk(country) == Truthy(countryMap(country))

NoInput == [hasMessage |-> FALSE, hasChat |-> FALSE, text |-> None, segs |-> <<>>]

NoFields == [keyword |-> <<>>, city |-> <<>>, country |-> <<>>, engine |-> <<>>]

IdleChat ==
    [pc |-> "idle", input |-> NoInput, parts |-> <<>>, fields |-> NoFields,
     params |-> NoParams, failed |-> FALSE, list |-> NoList, i |-> 0,
     emails |-> FALSE, sends |-> 0, recordSends |-> 0, floating |-> 0,
     rejected |-> FALSE, notice |-> "", reply |-> ""]

\* the upstream request of a validated command
CommandParams(f) ==
    fetchParams(searchQuery(Str(f.keyword), Str(f.city), Str(f.country)),
                countryMap(f.country), Str(f.engine))

\* webhook: await sendTelegramMessage(text), then res.status(200).send(reply)
SendThenReply(c, text, reply) ==
    [c EXCEPT !.pc = "replying", !.sends = @ + 1, !.notice = text, !.reply = reply]

\* polling: a bot.sendMessage(text) whose promise nothing awaits or catches,
\* the handler being over
SendAndLeave(c, text) ==
    [c EXCEPT !.pc = "done", !.sends = @ + 1, !.floating = @ + 1, !.notice = text]

\* the catch block: 'Something went wrong. Try again later.'
ErrorNotice(c) ==
    IF variant = "webhook" THEN SendThenReply(c, "Something went wrong", "OK")
    ELSE SendAndLeave(c, "Something went wrong")

SliceAll(list) == Len(list.items)

\* businessesRaw.slice(0, 10).length
SliceLen(list) == IF Len(list.items) < MaxRecords THEN Len(list.items) ELSE MaxRecords

\* the loop body after the e-mail scrape: build the message and send it
Compose(c) ==
    IF FormatThrows(c.list.items[c.i]) THEN ErrorNotice(c)
    ELSE [c EXCEPT !.pc = "sendingRecord", !.sends = @ + 1,
                   !.recordSends = @ + 1, !.notice = "record"]

\* the loop body for item i, up to its first await
Iterate(c, i) ==
    LET d == [c EXCEPT !.i = i] IN
    IF Truthy(d.list.items[i].website) THEN [d EXCEPT !.pc = "scraping"]
    ELSE Compose([d EXCEPT !.emails = FALSE])

\* the handler once the raw results are known
Deliver(c, list) ==
    LET d == [c EXCEPT !.list = list] IN
    IF list.k # "array"
    THEN \* length is undefined, slice is not a function: the catch block
         ErrorNotice(d)
    ELSE IF Len(list.items) = 0
    THEN IF variant = "webhook"
         THEN SendThenReply(d, "No businesses found", "No businesses found")
         ELSE SendAndLeave(d, "No businesses found")
    ELSE Iterate(d, 1)

\* webhook: from the update's arrival to the handler's first await
WebhookReceive(input) ==
    /\ variant = "webhook"
    /\ chat.pc = "idle"
    /\ LET c == [chat EXCEPT !.input = input] IN
        IF ~input.hasMessage \/ ~Truthy(input.text)
        THEN chat' = [c EXCEPT !.pc = "done", !.reply = "No message"]
        ELSE IF ~input.hasChat \/ input.text.t # "string"
        THEN \* body.message.chat.id or text.startsWith throws a TypeError
             chat' = [c EXCEPT !.pc = "unhandled"]
        ELSE IF ~StartsWithSigil(input.text.v)
        THEN chat' = [c EXCEPT !.pc = "done", !.reply = "Ignored"]
        ELSE LET parts == CommandParts(input.text.v)
                 d == [c EXCEPT !.parts = parts] IN
             IF Len(parts) < 2
             THEN chat' = SendThenReply(d, "Format", "Bad format")
             ELSE LET f == CommandFields(parts)
                      e == [d EXCEPT !.fields = f] IN
                  IF ~WebhookCountryOk(f.country)
                  THEN chat' = SendThenReply(e, "Allowed countries", "Invalid country")
                  ELSE IF Str(f.engine) \notin allowedEngines
                  THEN chat' = SendThenReply(e, "Allowed engines", "Invalid engine")
                  ELSE chat' = [e EXCEPT !.pc = "announcing", !.sends = @ + 1,
                                         !.notice = "Searching"]
    /\ UNCHANGED <<normVars, httpVars>>

\* webhook: a send that is followed by the HTTP reply has settled;
\* sendTelegramMessage catches its own failure
WebhookReplied ==
    /\ variant = "webhook"
    /\ chat.pc = "replying"
    /\ \E ok \in BOOLEAN : chat' = [chat EXCEPT !.pc = "done"]
    /\ UNCHANGED <<normVars, httpVars>>

\* webhook: the 'Searching' send has settled; fetchBusinesses issues the request
WebhookAnnounced ==
    /\ variant = "webhook"
    /\ chat.pc = "announcing"
    /\ chat' = [chat EXCEPT !.pc = "fetching", !.params = CommandParams(chat.fields)]
    /\ UNCHANGED <<normVars, httpVars>>

\* webhook: fetchBusinesses has returned
WebhookFetched(outcome) ==
    /\ variant = "webhook"
    /\ chat.pc = "fetching"
    /\ chat' = Deliver([chat EXCEPT !.failed = ~outcome.ok],
                       fetchBusinesses(chat.params.engine, outcome))
    /\ UNCHANGED <<normVars, httpVars>>

\* polling: the whole synchronous run of the listener on one message
PollingReceive(input) ==
    /\ variant = "polling"
    /\ chat.pc = "idle"
    /\ LET c == [chat EXCEPT !.input = input] IN
        IF ~Truthy(input.text) \/ ~StartsWithSigil(input.text.v)
        THEN chat' = [c EXCEPT !.pc = "done"]
        ELSE LET parts == CommandParts(input.text.v)
                 d == [c EXCEPT !.parts = parts] IN
             IF Len(parts) < 2
             THEN chat' = SendAndLeave(d, "Format")
             ELSE LET f == CommandFields(parts)
                      e == [d EXCEPT !.fields = f] IN
                  IF ~PollingCountryOk(f.country)
                  THEN chat' = SendAndLeave(e, "Allowed countries")
                  ELSE IF Str(f.engine) \notin allowedEngines
                  THEN chat' = SendAndLeave(e, "Allowed engines")
                  ELSE \* 'Searching' is sent without await, then axios.get
                       chat' = [e EXCEPT !.pc = "fetching", !.sends = @ + 1,
                                         !.floating = @ + 1,
                                         !.notice = "Searching",
                                         !.params = CommandParams(f)]
    /\ UNCHANGED <<normVars, httpVars>>

\* polling: axios.get has settled; a failure goes to the catch block
PollingFetched(outcome) ==
    /\ variant = "polling"
    /\ chat.pc = "fetching"
    /\ chat' = IF outcome.ok
               THEN Deliver(chat, ExtractResults(chat.params.engine, outcome))
               ELSE ErrorNotice([chat EXCEPT !.failed = TRUE])
    /\ UNCHANGED <<normVars, httpVars>>

\* polling: a send that nothing awaits settles; its rejection is unhandled
FloatingSettled ==
    /\ variant = "polling"
    /\ chat.floating > 0
    /\ \E ok \in BOOLEAN :
        chat' = [chat EXCEPT !.floating = @ - 1, !.rejected = @ \/ ~ok]
    /\ UNCHANGED <<normVars, httpVars>>

\* scrapeEmailsFromWebsite has returned (it catches its own failure)
Scraped ==
    /\ chat.pc = "scraping"
    /\ \E found \in BOOLEAN : chat' = Compose([chat EXCEPT !.emails = found])
    /\ UNCHANGED <<normVars, httpVars>>

\* the awaited send of a record message has settled
RecordSent ==
    /\ chat.pc = "sendingRecord"
    /\ \E ok \in BOOLEAN :
        IF variant = "polling" /\ ~ok
        THEN chat' = ErrorNotice(chat)
        ELSE IF chat.i < SliceLen(chat.list)
        THEN chat' = Iterate(chat, chat.i + 1)
        ELSE IF variant = "webhook"
        THEN chat' = [chat EXCEPT !.pc = "done", !.reply = "OK"]
        ELSE chat' = [chat EXCEPT !.pc = "done"]
    /\ UNCHANGED <<normVars, httpVars>>

----------------------------------------------------------------------------
(* Specification SpecNorm: one raw record through both delivery paths *)

RawRecords ==
    [title : {Undefined, Str(<<>>), Str(<<"Acme">>), Num(<<"7">>)},
     name : {Undefined, Null, Str(<<"Bob", "!">>)},
     address : {Undefined, Str(<<"1", " ", "Main", " ", "St", ".">>)},
     street_address : {Undefined, Str(<<"2", " ", "Side">>)},
     phone : {Undefined, Str(<<"+", "1", "-", "555">>)},
     website : {Undefined, Str(<<>>), Str(<<"acme", ".", "com">>)},
     url : {Undefined, Str(<<"maps", ".", "x">>)},
     rating : {Undefined, Num(<<"0">>), Num(<<"4", ".", "5">>)},
     reviews : {Undefined, Num(<<"0">>), Num(<<"12">>)},
     review_count : {Undefined, Num(<<"30">>)}]

EmptyRecord ==
    [title |-> Undefined, name |-> Undefined, address |-> Undefined,
     street_address |-> Undefined, phone |-> Undefined, website |-> Undefined,
     url |-> Undefined, rating |-> Undefined, reviews |-> Undefined,
     review_count |-> Undefined]

NoRecord == [f \in Fields |-> None]
Threw == [f \in Fields |-> [t |-> "threw", v |-> <<>>]]

InitNorm ==
    /\ raw \in RawRecords
    /\ canonical = NoRecord
    /\ chatText = NoRecord
    /\ HttpIdle
    /\ chat = IdleChat
    /\ variant = "webhook"

NormIdle ==
    /\ raw = EmptyRecord
    /\ canonical = NoRecord
    /\ chatText = NoRecord

\* HTTP path: POST /search maps the raw record
MapRecord ==
    /\ canonical = NoRecord
    /\ canonical' = NormalizeRecord(raw)
    /\ UNCHANGED <<raw, chatText, httpVars, chat>>

\* chat path: the handler's loop body builds the message for the raw record
RenderRecord ==
    /\ chatText = NoRecord
    /\ chatText' = IF FormatThrows(raw) THEN Threw ELSE FormatRecord(raw)
    /\ UNCHANGED <<raw, canonical, httpVars, chat>>

NextNorm == MapRecord \/ RenderRecord

SpecNorm == InitNorm /\ [][NextNorm]_vars

----------------------------------------------------------------------------
(* Inputs of the HTTP specifications *)

MaxHttpResults == 1

SeqsUpTo(S, n) == UNION {[1..k -> S] : k \in 0..n}

AcmeRecord ==
    [EmptyRecord EXCEPT !.title = Str(<<"Acme">>),
                        !.website = Str(<<"acme", ".", "com">>),
                        !.rating = Num(<<"4", ".", "5">>),
                        !.reviews = Num(<<"12">>)]

BobRecord ==
    [EmptyRecord EXCEPT !.name = Str(<<"Bob">>), !.review_count = Num(<<"30">>)]

HttpRecords == {AcmeRecord, BobRecord}

ListKinds ==
    {NoList, NotAList} \cup {Array(items) : items \in SeqsUpTo(HttpRecords, MaxHttpResults)}

UpstreamOutcomes ==
    {Failure} \cup
    [ok : {TRUE}, local_results : ListKinds, organic_results : ListKinds,
     places : ListKinds]

SearchBodies ==
    [keyword : {Undefined, Str(<<>>), Str(<<"seo">>), Num(<<"7">>)},
     country : {Undefined, Str(<<"usa">>), Str(<<"USA">>), Str(<<"UsA">>),
                Str(<<"uk">>), Str(<<"australia">>), Str(<<"canada">>),
                Str(<<"mars">>), Str(<<"constructor">>), Num(<<"5">>)},
     city : {Undefined, Str(<<"new", " ", "york">>), Num(<<"3">>)},
     engine : {Undefined, google_maps, google, bing_maps, apple_maps,
               Str(<<"Google">>), Str(<<"yahoo">>)}]

----------------------------------------------------------------------------
(* Specification SpecSearch: one POST /search, any body, any upstream answer *)

InitSearch ==
    /\ NormIdle
    /\ HttpIdle
    /\ chat = IdleChat
    /\ variant \in {"webhook", "polling"}

NextSearch ==
    \/ \E body \in SearchBodies : PostSearch(1, body)
    \/ \E outcome \in UpstreamOutcomes : SearchRespond(1, outcome)
    \/ \E outcome \in UpstreamOutcomes : SearchRespondLatest(1, outcome)

SpecSearch == InitSearch /\ [][NextSearch]_vars

----------------------------------------------------------------------------
(* Specification Spec: concurrent POST /search requests and downloads *)

RaceBodies ==
    [keyword : {Str(<<"seo">>), Num(<<"7">>)},
     country : {Str(<<"usa">>), Str(<<"mars">>)},
     city : {Undefined, Str(<<"new", " ", "york">>)},
     engine : {Undefined}]

RaceOutcomes ==
    {Failure} \cup
    [ok : {TRUE}, local_results : {Array(<<>>), Array(<<AcmeRecord>>)},
     organic_results : {NoList}, places : {NoList}]

DownloadNames == {Undefined, Str(<<"leads", ".", "xlsx">>)}

Init ==
    /\ NormIdle
    /\ HttpIdle
    /\ chat = IdleChat
    /\ variant \in {"webhook", "polling"}

Next ==
    \/ \E r \in Reqs, body \in RaceBodies : PostSearch(r, body)
    \/ \E r \in Reqs, outcome \in RaceOutcomes : SearchRespond(r, outcome)
    \/ \E r \in Reqs, outcome \in RaceOutcomes : SearchRespondLatest(r, outcome)
    \/ \E businesses \in ListKinds, filename \in DownloadNames :
            PostDownload(businesses, filename)
    \/ GetDownload

Spec == Init /\ [][Next]_vars

----------------------------------------------------------------------------
(* Inputs of the chat specifications *)

MaxSegs == 5
MaxResults == 11

\* a command segment as typed: its text, with or without blanks around it
Piece(pad, core) == [pad |-> pad, core |-> core]

Typed(piece) == IF piece.pad THEN <<" ">> \o piece.core \o <<" ">> ELSE piece.core

RECURSIVE Join(_)
Join(segs) ==
    IF Len(segs) = 1 THEN Typed(segs[1])
    ELSE Typed(Head(segs)) \o <<",">> \o Join(Tail(segs))

\* the update carrying the command typed as "/" and the segments, comma-separated
CommandInput(segs) ==
    [hasMessage |-> TRUE, hasChat |-> TRUE, text |-> Str(<<"/">> \o Join(segs)),
     segs |-> segs]

OtherInput(hasMessage, hasChat, text) ==
    [hasMessage |-> hasMessage, hasChat |-> hasChat, text |-> text, segs |-> <<>>]

Seo == Piece(FALSE, <<"seo">>)
NewYork == Piece(TRUE, <<"new", " ", "york">>)

ParsePieces ==
    {Seo, NewYork, Piece(TRUE, <<"USA">>), Piece(FALSE, <<"constructor">>),
     Piece(FALSE, <<"Google">>), Piece(FALSE, <<>>)}

ParseInputs ==
    {CommandInput(segs) : segs \in UNION {[1..k -> ParsePieces] : k \in 1..MaxSegs}}

OneField(name, list) ==
    [ok |-> TRUE,
     local_results |-> IF name = "local_results" THEN list ELSE NoList,
     organic_results |-> IF name = "organic_results" THEN list ELSE NoList,
     places |-> IF name = "places" THEN list ELSE NoList]

ParseOutcomes == {Failure, OneField("local_results", Array(<<AcmeRecord>>))}

\* a listing whose title is a number
NumRecord == [EmptyRecord EXCEPT !.title = Num(<<"7">>)]

ChatLists ==
    {NoList, NotAList}
    \cup {Array([i \in 1..n |-> b]) : n \in 0..MaxResults, b \in {AcmeRecord, BobRecord}}
    \cup UNION {{Array([i \in 1..n |-> IF i = k THEN NumRecord ELSE AcmeRecord]) :
                    k \in 1..n} : n \in 1..MaxResults}

ChatOutcomes ==
    {Failure}
    \cup {OneField(name, list) :
            name \in {"local_results", "organic_results", "places"},
            list \in ChatLists}

ChatCommands ==
    {<<Seo>>,
     <<Seo, Piece(FALSE, <<"USA">>)>>,
     <<Seo, Piece(FALSE, <<"mars">>)>>,
     <<Seo, Piece(FALSE, <<"constructor">>)>>,
     <<Seo, NewYork, Piece(FALSE, <<"uk">>)>>,
     <<Seo, NewYork, Piece(FALSE, <<"usa">>), Piece(FALSE, <<"Google">>)>>,
     <<Seo, NewYork, Piece(FALSE, <<"usa">>), Piece(TRUE, <<"bing", "_", "maps">>)>>,
     <<Seo, NewYork, Piece(FALSE, <<"usa">>), Piece(FALSE, <<"yahoo">>)>>}

\* what the polling library delivers: a message of a chat, with or without text
PollingInputs ==
    {CommandInput(segs) : segs \in ChatCommands}
    \cup {OtherInput(TRUE, TRUE, Undefined), OtherInput(TRUE, TRUE, Str(<<"hello">>))}

\* what the webhook endpoint may be posted: any JSON body
WebhookInputs ==
    PollingInputs
    \cup {OtherInput(FALSE, FALSE, Undefined), OtherInput(TRUE, FALSE, Str(<<"/">>)),
          OtherInput(TRUE, TRUE, Num(<<"7">>))}

----------------------------------------------------------------------------
(* Specification SpecParse: any command text through either handler *)

InitChat ==
    /\ NormIdle
    /\ HttpIdle
    /\ chat = IdleChat
    /\ variant \in {"webhook", "polling"}

NextParse ==
    \/ chat.pc = "idle" /\ \E input \in ParseInputs : WebhookReceive(input)
    \/ chat.pc = "idle" /\ \E input \in ParseInputs : PollingReceive(input)
    \/ WebhookReplied
    \/ WebhookAnnounced
    \/ chat.pc = "fetching" /\ \E outcome \in ParseOutcomes : WebhookFetched(outcome)
    \/ chat.pc = "fetching" /\ \E outcome \in ParseOutcomes : PollingFetched(outcome)
    \/ FloatingSettled
    \/ Scraped
    \/ RecordSent

SpecParse == InitChat /\ [][NextParse]_vars

----------------------------------------------------------------------------
(* Specification SpecChat: a command and every upstream answer to it *)

NextChat ==
    \/ chat.pc = "idle" /\ \E input \in WebhookInputs : WebhookReceive(input)
    \/ chat.pc = "idle" /\ \E input \in PollingInputs : PollingReceive(input)
    \/ WebhookReplied
    \/ WebhookAnnounced
    \/ chat.pc = "fetching" /\ \E outcome \in ChatOutcomes : WebhookFetched(outcome)
    \/ chat.pc = "fetching" /\ \E outcome \in ChatOutcomes : PollingFetched(outcome)
    \/ FloatingSettled
    \/ Scraped
    \/ RecordSent

SpecChat == InitChat /\ [][NextChat]_vars

----------------------------------------------------------------------------
(* Claims *)

Core(i) == chat.input.segs[i].core

IsCommand == chat.pc # "idle" /\ chat.input.segs # <<>>

\* C1 (as amended): a command's text is split on commas and each segment
\* trimmed; 2 segments give keyword, empty city, lower-cased country and
\* google_maps; 3 give keyword, city, lower-cased country and google_maps;
\* 4 give keyword, city, lower-cased country and lower-cased engine; with
\* fewer than 2 the format notice is sent and no search request is issued;
\* the webhook and the polling handler assign the same fields.
ParseAssignsFields ==
    IsCommand =>
        LET n == Len(chat.input.segs) IN
        /\ Len(chat.parts) = n
        /\ \A i \in 1..n : chat.parts[i] = Core(i)
        /\ n < 2 => /\ chat.notice = "Format"
                    /\ chat.params = NoParams
                    /\ chat.fields = NoFields
                    /\ chat.pc \in {"replying", "done"}
        /\ n = 2 => chat.fields =
                        [keyword |-> Core(1), city |-> <<>>,
                         country |-> toLowerCase(Core(2)),
                         engine |-> <<"google", "_", "maps">>]
        /\ n = 3 => chat.fields =
                        [keyword |-> Core(1), city |-> Core(2),
                         country |-> toLowerCase(Core(3)),
                         engine |-> <<"google", "_", "maps">>]
        /\ n = 4 => chat.fields =
                        [keyword |-> Core(1), city |-> Core(2),
                         country |-> toLowerCase(Core(3)),
                         engine |-> toLowerCase(Core(4))]

\* C1 witness: a four-segment command typed with blanks and capitals has been
\* parsed and its search request issued
ParsedFourSegments ==
    /\ IsCommand
    /\ Len(chat.input.segs) = 4
    /\ chat.input.segs[2].pad
    /\ Core(3) = <<"USA">>
    /\ chat.fields.country = <<"usa">>
    /\ chat.fields.engine = <<"google">>
    /\ chat.params.engine = google

\* C1 as stated: country and engine are the trimmed segments themselves
ParseAssignsSegmentsVerbatim ==
    IsCommand =>
        LET n == Len(chat.input.segs) IN
        /\ n < 2 => chat.notice = "Format" /\ chat.params = NoParams
        /\ n = 2 => chat.fields =
                        [keyword |-> Core(1), city |-> <<>>, country |-> Core(2),
                         engine |-> <<"google", "_", "maps">>]
        /\ n = 3 => chat.fields =
                        [keyword |-> Core(1), city |-> Core(2), country |-> Core(3),
                         engine |-> <<"google", "_", "maps">>]
        /\ n = 4 => chat.fields =
                        [keyword |-> Core(1), city |-> Core(2), country |-> Core(3),
                         engine |-> Core(4)]

\* C2 (as amended): at most 10 record messages are sent for one search
\* command whatever the number of raw results; with the 'Searching' notice
\* and a final error notice the handler makes at most 11 sends in the webhook
\* deployment and at most 12 in the polling deployment.
AtMostTenRecordMessages ==
    /\ chat.recordSends <= MaxRecords
    /\ chat.sends <= MaxRecords + 2
    /\ variant = "webhook" => chat.sends <= MaxRecords + 1

\* C2 witness: a search that returned more than 10 raw results has completed
MoreThanTenResultsDelivered ==
    /\ chat.pc = "done"
    /\ chat.list.k = "array"
    /\ Len(chat.list.items) > MaxRecords
    /\ chat.recordSends = MaxRecords

\* C2 as stated: at most 10 messages in all are sent for one search command
AtMostTenMessages == chat.sends <= MaxRecords

Missing(body) == ~Truthy(body.keyword) \/ ~Truthy(body.country)

InvalidCountry(body) ==
    body.country.t = "string" /\ toLowerCase(body.country.v) \notin CountryKeys

\* C3: POST /search answers 400 when keyword or country is missing or the
\* country is invalid, and an upstream failure is answered 500, never 200
UpstreamFailureAnswered500 ==
    \A r \in Reqs :
        req[r].pc = "done" =>
            /\ Missing(req[r].body) => req[r].status = 400
            /\ req[r].failed => req[r].status = 500

\* C4: a download is answered 400 whenever the list it would export is empty
\* or missing (before any search too), and a workbook is sent only for a list
\* of at least one record
ExportNeverEmpty ==
    download.via # "none" =>
        /\ download.status \in {200, 400}
        /\ (download.source.k # "array" \/ Len(download.source.items) = 0)
                => download.status = 400
        /\ download.status = 200 =>
                /\ download.source.k = "array"
                /\ download.rows = Len(download.source.items)
                /\ download.rows >= 1
        /\ (download.via = "GET" /\ businessesWriter = 0) => download.status = 400

\* C4 witness: a search has stored an empty result and the GET download that
\* followed was rejected
EmptyResultDownloadRejected ==
    /\ download.via = "GET"
    /\ download.status = 400
    /\ businessesWriter # 0
    /\ latestBusinesses = <<>>

\* C5: an upstream search request is issued only for a country whose lower
\* case is usa, uk, australia or canada, with region us, gb, au, ca; any
\* other country string is rejected without an upstream request
CountryValidationClosed ==
    /\ \A r \in Reqs :
        /\ req[r].params # NoParams =>
            /\ toLowerCase(req[r].body.country.v) \in CountryKeys
            /\ req[r].params.gl \in
                    {Undefined, RegionOf(toLowerCase(req[r].body.country.v))}
        /\ (req[r].pc # "idle" /\ ~Missing(req[r].body) /\ InvalidCountry(req[r].body))
                => req[r].params = NoParams /\ req[r].status = 400
    /\ chat.params # NoParams =>
            /\ chat.fields.country \in CountryKeys
            /\ chat.params.gl \in {Undefined, RegionOf(chat.fields.country)}

\* C6: no request or chat message ends in an exception that leaves its
\* handler or in an unhandled rejection
NoFailureEscapes ==
    /\ chat.pc # "unhandled"
    /\ ~chat.rejected
    /\ \A r \in Reqs : req[r].pc # "unhandled"

\* the first truthy value of a fallback chain, the sentinel when there is none
FirstPresent(chain, sentinel) ==
    IF \E i \in 1..Len(chain) : Truthy(chain[i])
    THEN chain[CHOOSE i \in 1..Len(chain) :
                    Truthy(chain[i]) /\ \A j \in 1..(i - 1) : ~Truthy(chain[j])]
    ELSE sentinel

\* C7: every field of the normalised record is present and non-null: the
\* first truthy source field in the declared order, the sentinel when none
NormalizationTotal ==
    canonical # NoRecord =>
        /\ \A f \in Fields : canonical[f].t \notin {"undefined", "null", "none"}
        /\ canonical.name = FirstPresent(<<raw.title, raw.name>>, Str(<<"No Name">>))
        /\ canonical.address =
                FirstPresent(<<raw.address, raw.street_address>>, Str(<<"N/A">>))
        /\ canonical.phone = FirstPresent(<<raw.phone>>, Str(<<"N/A">>))
        /\ canonical.website = FirstPresent(<<raw.website, raw.url>>, Str(<<"N/A">>))
        /\ canonical.rating = FirstPresent(<<raw.rating>>, Str(<<"N/A">>))
        /\ canonical.reviews =
                FirstPresent(<<raw.reviews, raw.review_count>>, Str(<<"N/A">>))

\* C7 witness: a record with an empty title, a name, a zero rating and no
\* review field has been normalised
FallbacksTaken ==
    /\ canonical # NoRecord
    /\ raw.title = Str(<<>>)
    /\ Truthy(raw.name)
    /\ canonical.name = raw.name
    /\ raw.rating = Num(<<"0">>)
    /\ raw.reviews = Undefined
    /\ raw.review_count = Undefined
    /\ canonical.reviews = Str(<<"N/A">>)

\* C8: the engine sent upstream is the request's engine when it is one of
\* the four allowed, google_maps otherwise; no request is rejected because
\* of its engine; gl and hl are attached only for google_maps and google
EngineSelection ==
    \A r \in Reqs :
        /\ req[r].params # NoParams =>
            LET asked == req[r].body.engine
                sent == req[r].params.engine
                regional == sent \in {Str(<<"google", "_", "maps">>), Str(<<"google">>)}
            IN  /\ asked \in allowedEngines => sent = asked
                /\ asked \notin allowedEngines => sent = Str(<<"google", "_", "maps">>)
                /\ regional <=> req[r].params.gl # Undefined
                /\ regional <=> req[r].params.hl = Str(<<"en">>)
                /\ ~regional => req[r].params.hl = Undefined
        /\ req[r].status = 400 =>
                Missing(req[r].body) \/ InvalidCountry(req[r].body)
        /\ (req[r].pc # "idle" /\ ~Missing(req[r].body)
                /\ req[r].body.country.t = "string"
                /\ toLowerCase(req[r].body.country.v) \in CountryKeys)
                => req[r].params # NoParams

\* C8 witness: a request naming an engine outside the list has been answered
\* 200 after a google_maps search
UnknownEngineServed ==
    /\ req[1].body.engine = Str(<<"yahoo">>)
    /\ req[1].status = 200
    /\ req[1].params.engine = google_maps
    /\ req[1].params.gl = Str(<<"us">>)

\* C9: the stored result list and the stored filename always come from the
\* same search request, the one that wrote last, and that pair is what a
\* GET /download-excel serves
LatestPairFromOneRequest ==
    /\ businessesWriter = filenameWriter
    /\ (download.via = "GET" /\ download.status = 200) => download.rows >= 1

\* C10: each field value shown in a record's chat message is the string form
\* of the value the normaliser gives for the same raw record
ChatRendersCanonical ==
    (canonical # NoRecord /\ chatText # NoRecord /\ chatText # Threw) =>
        \A f \in Fields : chatText[f] = escapeMarkdown(toString(canonical[f]))

====
